---- MODULE Spec2Model ----
(***************************************************************************)
(* Model of fasterikpy/utils/geometry.py: the rotation builders, the       *)
(* translation builders and the cartesian/homogeneous conversions.         *)
(*                                                                         *)
(* Scalars are exact.  A scalar is the linear form k + c*cos(x) + s*sin(x) *)
(* over the one free sympy symbol x, with rational coefficients; a number  *)
(* is a form with c = s = 0.  Floating-point rounding is not modelled.     *)
(* An angle is given by its point (cos, sin) on the unit circle, or is the *)
(* free symbol.  A matrix is a sequence of rows, a vector a sequence of    *)
(* scalars.  Every library function returns a result record [err, val]:    *)
(* err = "none" and the returned value, or the name of the exception.      *)
(***************************************************************************)
EXTENDS Integers, Sequences, FiniteSets, TLC

VARIABLES pc, op, args, ret, from

vars == <<pc, op, args, ret, from>>

\* ------------------------------------------------------------- bounds
\* Largest absolute value of an axis / translation / matrix entry drawn as input.
MaxCoord == 1
\* Largest N of the N x N matrices and N-vectors drawn as input.
MaxDim == 2

\* ------------------------------------------------- rational arithmetic
Abs(n) == IF n < 0 THEN -n ELSE n

RECURSIVE GCD(_, _)
GCD(a, b) == IF b = 0 THEN a ELSE GCD(b, a % b)

\* The rational n/d (d # 0) in lowest terms with a positive denominator.
Rat(n, d) ==
    LET g == GCD(Abs(n), Abs(d))
        sg == IF d < 0 THEN -1 ELSE 1
    IN  <<sg * (n \div g), sg * (d \div g)>>

R0 == <<0, 1>>
R1 == <<1, 1>>
RAdd(p, q) == Rat(p[1] * q[2] + q[1] * p[2], p[2] * q[2])
RMul(p, q) == Rat(p[1] * q[1], p[2] * q[2])
RNeg(p) == <<-p[1], p[2]>>

\* ------------------------------------------------------------- scalars
\* A number (python int, jnp float, sympy number).
Num(r) == [k |-> r, c |-> R0, s |-> R0]
PyInt(i) == Num(<<i, 1>>)
IsNumber(e) == e.c = R0 /\ e.s = R0

\* Python's binary +, -, * and unary - on scalars.  In every product the code
\* forms at least one factor is a number.
Add(a, b) == [k |-> RAdd(a.k, b.k), c |-> RAdd(a.c, b.c), s |-> RAdd(a.s, b.s)]
Neg(a) == [k |-> RNeg(a.k), c |-> RNeg(a.c), s |-> RNeg(a.s)]
Sub(a, b) == Add(a, Neg(b))
Scale(r, a) == [k |-> RMul(r, a.k), c |-> RMul(r, a.c), s |-> RMul(r, a.s)]
Mul(a, b) == IF IsNumber(a) THEN Scale(a.k, b) ELSE Scale(b.k, a)
Sq(a) == Mul(a, a)

\* -------------------------------------------------------------- angles
\* The angles whose cosine and sine are multiples of 1/5 (0, pi/2, pi, 3pi/2
\* and the eight 3-4-5 angles), each as its point on the unit circle.
Angles ==
    {[sym |-> FALSE, cos |-> Rat(p[1], 5), sin |-> Rat(p[2], 5)] :
        p \in {q \in (-5..5) \X (-5..5) : q[1] * q[1] + q[2] * q[2] = 25}}

\* The free sympy symbol.
Symbol == [sym |-> TRUE, cos |-> R0, sin |-> R0]

jnp_cos(theta) == Num(theta.cos)
jnp_sin(theta) == Num(theta.sin)
sympy_cos(theta) == IF theta.sym THEN [k |-> R0, c |-> R1, s |-> R0] ELSE Num(theta.cos)
sympy_sin(theta) == IF theta.sym THEN [k |-> R0, c |-> R0, s |-> R1] ELSE Num(theta.sin)

\* ------------------------------------------------------------- results
Ok(v) == [err |-> "none", val |-> v]
Raise(e) == [err |-> e, val |-> <<>>]

\* ------------------------------------------------------------ matrices
RECURSIVE SumTo(_, _, _, _)
\* sum over k in 1..n of a[k] * b[k]
SumTo(a, b, n, acc) ==
    IF n = 0 THEN acc ELSE SumTo(a, b, n - 1, Add(acc, Mul(a[n], b[n])))

Column(m, j) == [i \in 1..Len(m) |-> m[i][j]]

\* The matrix product of an n x k and a k x p matrix.
MatMul(a, b) ==
    [i \in 1..Len(a) |->
        [j \in 1..Len(b[1]) |-> SumTo(a[i], Column(b, j), Len(b), PyInt(0))]]

eye(n) == [i \in 1..n |-> [j \in 1..n |-> IF i = j THEN PyInt(1) ELSE PyInt(0)]]
zeros(n) == [i \in 1..n |-> PyInt(0)]
zeros2(n, m) == [i \in 1..n |-> [j \in 1..m |-> PyInt(0)]]

\* jnp.array(rows): a JAX array holds numbers only; a sympy expression with
\* the free symbol in it has no JAX dtype and is rejected with a TypeError.
jnp_array(rows) ==
    IF \A i \in 1..Len(rows) : \A j \in 1..Len(rows[i]) : IsNumber(rows[i][j])
    THEN Ok(rows)
    ELSE Raise("TypeError")

\* jnp.dot of two results; an exception raised by an argument propagates.
jnp_dot(a, b) ==
    IF a.err # "none" THEN a
    ELSE IF b.err # "none" THEN b
    ELSE Ok(MatMul(a.val, b.val))

\* sympy.Matrix(x) of a result x: a sympy matrix with the same entries; an
\* exception raised while computing x propagates.
sympy_Matrix(x) == x

\* The product of sympy matrices.
sympy_mul(a, b) ==
    IF a.err # "none" THEN a
    ELSE IF b.err # "none" THEN b
    ELSE Ok(MatMul(a.val, b.val))

\* ------------------------------------------------ elementary rotations
rx_matrix(theta) ==
    jnp_array(<<
        <<PyInt(1), PyInt(0), PyInt(0)>>,
        <<PyInt(0), jnp_cos(theta), Neg(jnp_sin(theta))>>,
        <<PyInt(0), jnp_sin(theta), jnp_cos(theta)>> >>)

\* rz_matrix with the sign of the sine in the first row lost.
rz_matrix_sign_slip(theta) ==
    jnp_array(<<
        <<jnp_cos(theta), jnp_sin(theta), PyInt(0)>>,
        <<jnp_sin(theta), jnp_cos(theta), PyInt(0)>>,
        <<PyInt(0), PyInt(0), PyInt(1)>> >>)

rz_matrix(theta) ==
    jnp_array(<<
        <<jnp_cos(theta), Neg(jnp_sin(theta)), PyInt(0)>>,
        <<jnp_sin(theta), jnp_cos(theta), PyInt(0)>>,
        <<PyInt(0), PyInt(0), PyInt(1)>> >>)

symbolic_rz_matrix(symbolic_theta) ==
    Ok(<<
        <<sympy_cos(symbolic_theta), Neg(sympy_sin(symbolic_theta)), PyInt(0)>>,
        <<sympy_sin(symbolic_theta), sympy_cos(symbolic_theta), PyInt(0)>>,
        <<PyInt(0), PyInt(0), PyInt(1)>> >>)

ry_matrix(theta) ==
    jnp_array(<<
        <<jnp_cos(theta), PyInt(0), jnp_sin(theta)>>,
        <<PyInt(0), PyInt(1), PyInt(0)>>,
        <<Neg(jnp_sin(theta)), PyInt(0), jnp_cos(theta)>> >>)

\* ------------------------------------------------- composite rotations
\* rotation_matrix with the factors in the reverse order.
rotation_matrix_reversed(phi, theta, psi) ==
    jnp_dot(rz_matrix(psi), jnp_dot(rx_matrix(theta), rz_matrix(phi)))

rotation_matrix(phi, theta, psi) ==
    jnp_dot(rz_matrix(phi), jnp_dot(rx_matrix(theta), rz_matrix(psi)))

symbolic_rotation_matrix(phi, theta, symbolic_psi) ==
    sympy_mul(sympy_mul(sympy_Matrix(rz_matrix(phi)), sympy_Matrix(rx_matrix(theta))),
              symbolic_rz_matrix(symbolic_psi))

rpy_matrix(roll, pitch, yaw) ==
    jnp_dot(rz_matrix(yaw), jnp_dot(ry_matrix(pitch), rx_matrix(roll)))

\* The formula with the sign of z * s in the first row flipped.
axis_rotation_matrix_formula_sign_slip(x, y, z, c, s) ==
    LET one == PyInt(1)
    IN  jnp_array(<<
        <<Add(Sq(x), Mul(Sub(one, Sq(x)), c)),
          Add(Mul(Mul(x, y), Sub(one, c)), Mul(z, s)),
          Add(Mul(Mul(x, z), Sub(one, c)), Mul(y, s))>>,
        <<Add(Mul(Mul(x, y), Sub(one, c)), Mul(z, s)),
          Add(Sq(y), Mul(Sub(one, Sq(y)), c)),
          Sub(Mul(Mul(y, z), Sub(one, c)), Mul(x, s))>>,
        <<Sub(Mul(Mul(x, z), Sub(one, c)), Mul(y, s)),
          Add(Mul(Mul(y, z), Sub(one, c)), Mul(x, s)),
          Add(Sq(z), Mul(Sub(one, Sq(z)), c))>> >>)

axis_rotation_matrix_formula(x, y, z, c, s) ==
    LET one == PyInt(1)
    IN  jnp_array(<<
        <<Add(Sq(x), Mul(Sub(one, Sq(x)), c)),
          Sub(Mul(Mul(x, y), Sub(one, c)), Mul(z, s)),
          Add(Mul(Mul(x, z), Sub(one, c)), Mul(y, s))>>,
        <<Add(Mul(Mul(x, y), Sub(one, c)), Mul(z, s)),
          Add(Sq(y), Mul(Sub(one, Sq(y)), c)),
          Sub(Mul(Mul(y, z), Sub(one, c)), Mul(x, s))>>,
        <<Sub(Mul(Mul(x, z), Sub(one, c)), Mul(y, s)),
          Add(Mul(Mul(y, z), Sub(one, c)), Mul(x, s)),
          Add(Sq(z), Mul(Sub(one, Sq(z)), c))>> >>)

axis_rotation_matrix(axis, theta) ==
    LET c == jnp_cos(theta)
        s == jnp_sin(theta)
        m == axis_rotation_matrix_formula(axis[1], axis[2], axis[3], c, s)
    IN  IF m.err # "none" THEN m ELSE jnp_array(m.val)

symbolic_axis_rotation_matrix(axis, symbolic_theta) ==
    LET c == sympy_cos(symbolic_theta)
        s == sympy_sin(symbolic_theta)
        m == axis_rotation_matrix_formula(axis[1], axis[2], axis[3], c, s)
    IN  sympy_Matrix(m)

\* ------------------------------------------------- slicing and update
\* m[:-1, :-1]
DropLastRowCol(m) == [i \in 1..(Len(m) - 1) |-> SubSeq(m[i], 1, Len(m[i]) - 1)]
\* v[:-1]
DropLast(v) == SubSeq(v, 1, Len(v) - 1)
\* m[:, -1]
LastColumn(m) == [i \in 1..Len(m) |-> m[i][Len(m[i])]]

\* m.at[:-1, :-1].set(block): a NEW array, m with its top-left block replaced;
\* m itself is left as it was.
at_set_block(m, block) ==
    [i \in 1..Len(m) |-> [j \in 1..Len(m[i]) |->
        IF i < Len(m) /\ j < Len(m[i]) THEN block[i][j] ELSE m[i][j]]]

\* m.at[:-1, -1].set(v) (m.at[:3, 3].set(v) for a 4 x 4 m): a NEW array, m with
\* the last column above the bottom row replaced; m itself is left as it was.
at_set_column(m, v) ==
    [i \in 1..Len(m) |-> [j \in 1..Len(m[i]) |->
        IF i < Len(m) /\ j = Len(m[i]) THEN v[i] ELSE m[i][j]]]

\* v.at[-1].set(x) and v.at[:-1].set(w): NEW arrays.
at_set_last(v, x) == [i \in 1..Len(v) |-> IF i = Len(v) THEN x ELSE v[i]]
at_set_front(v, w) == [i \in 1..Len(v) |-> IF i < Len(v) THEN w[i] ELSE v[i]]

\* --------------------------------------------------------- translations
get_translation_matrix(mu) ==
    LET translation_matrix == eye(4)
        \* line 88: the updated array is computed and dropped
        dropped == at_set_column(translation_matrix, mu)
    IN  Ok(translation_matrix)

\* sympy matrices are mutable: the slice assignment of line 95 updates in place.
get_symbolic_translation_matrix(mu) ==
    LET translation_matrix == at_set_column(eye(4), mu)
    IN  sympy_Matrix(Ok(translation_matrix))

homogeneous_translation_matrix(trans_x, trans_y, trans_z) ==
    jnp_array(<<
        <<PyInt(1), PyInt(0), PyInt(0), trans_x>>,
        <<PyInt(0), PyInt(1), PyInt(0), trans_y>>,
        <<PyInt(0), PyInt(0), PyInt(1), trans_z>>,
        <<PyInt(0), PyInt(0), PyInt(0), PyInt(1)>> >>)

from_transformation_matrix(transformation_matrix) ==
    Ok(<<LastColumn(transformation_matrix), DropLastRowCol(transformation_matrix)>>)

\* The default of the orientation_matrix parameter.
DefaultOrientation == zeros2(3, 3)

to_transformation_matrix(translation, orientation_matrix) ==
    LET matrix == eye(4)
        \* lines 120-121: both updated arrays are computed and dropped
        dropped1 == at_set_block(matrix, orientation_matrix)
        dropped2 == at_set_column(matrix, translation)
    IN  Ok(matrix)

\* ---------------------------------------------- cartesian / homogeneous
\* The default of the matrix_type parameter.
DefaultMatrixType == "numpy"

cartesian_to_homogeneous(cartesian_matrix, matrix_type) ==
    LET dimension_x == Len(cartesian_matrix)
    IN  IF matrix_type = "numpy"
        THEN LET homogeneous_matrix == eye(dimension_x + 1)
                 \* line 137: the updated array is computed and dropped
                 dropped == at_set_block(homogeneous_matrix, cartesian_matrix)
             IN  Ok(homogeneous_matrix)
        ELSE IF matrix_type = "sympy"
        \* line 137 on sympy.eye(...): a sympy matrix has no attribute "at"
        THEN Raise("AttributeError")
        ELSE Raise("ValueError")

\* The vector conversion taking the "sympy" tag as well, as the matrix
\* conversion does.
cartesian_to_homogeneous_vectors_two_tags(cartesian_vector, matrix_type) ==
    IF matrix_type \in {"numpy", "sympy"}
    THEN Ok(zeros(Len(cartesian_vector) + 1))
    ELSE Raise("ValueError")

cartesian_to_homogeneous_vectors(cartesian_vector, matrix_type) ==
    LET dimension_x == Len(cartesian_vector)
    IN  IF matrix_type = "numpy"
        THEN LET homogeneous_vector == zeros(dimension_x + 1)
                 \* lines 149-150: both updated arrays are computed and dropped
                 dropped1 == at_set_last(homogeneous_vector, PyInt(1))
                 dropped2 == at_set_front(homogeneous_vector, cartesian_vector)
             IN  Ok(homogeneous_vector)
        ELSE Raise("ValueError")

homogeneous_to_cartesian_vectors(homogeneous_vector) ==
    Ok(DropLast(homogeneous_vector))

homogeneous_to_cartesian(homogeneous_matrix) ==
    Ok(DropLastRowCol(homogeneous_matrix))

\* --------------------------------------------------------------- inputs
Coords == {PyInt(i) : i \in (-MaxCoord)..MaxCoord}
Vector3s == {<<x, y, z>> : x \in Coords, y \in Coords, z \in Coords}
\* The orientation blocks handed to to_transformation_matrix: the elementary
\* rotations and the parameter's default.
Orientations ==
    {rx_matrix(a).val : a \in Angles} \cup {ry_matrix(a).val : a \in Angles}
        \cup {rz_matrix(a).val : a \in Angles} \cup {DefaultOrientation}
Entries == {PyInt(i) : i \in 0..MaxCoord}
SquareMatrices == UNION {[1..n -> [1..n -> Entries]] : n \in 1..MaxDim}
Vectors == UNION {[1..n -> Coords] : n \in 1..MaxDim}
\* The two tags the code recognises, "numpy" for numeric and "sympy" for
\* symbolic matrices, and three it does not.
MatrixTypes == {DefaultMatrixType, "sympy", "numeric", "symbolic", "bogus"}

\* --------------------------------------------------------- state machine
\* pc: "idle" before the call, "returned" after a library call, "converted"
\* after the returned value was handed to one of the inverse conversions.
\* from: the call that produced the argument of the conversion.
Init ==
    /\ pc = "idle"
    /\ op = "none"
    /\ args = <<>>
    /\ ret = Ok(<<>>)
    /\ from = [op |-> "none", args |-> <<>>]

Call(o, a, r) ==
    /\ pc' = "returned"
    /\ op' = o
    /\ args' = a
    /\ ret' = r
    /\ UNCHANGED from

Convert(o, r) ==
    /\ ret.err = "none"
    /\ pc' = "converted"
    /\ from' = [op |-> op, args |-> args]
    /\ op' = o
    /\ args' = <<ret.val>>
    /\ ret' = r

Do_rx_matrix ==
    /\ pc = "idle"
    /\ \E theta \in Angles : Call("rx_matrix", <<theta>>, rx_matrix(theta))
Do_ry_matrix ==
    /\ pc = "idle"
    /\ \E theta \in Angles : Call("ry_matrix", <<theta>>, ry_matrix(theta))
Do_rz_matrix ==
    /\ pc = "idle"
    /\ \E theta \in Angles : Call("rz_matrix", <<theta>>, rz_matrix(theta))
Do_symbolic_rz_matrix ==
    /\ pc = "idle"
    /\ \E theta \in Angles \cup {Symbol} :
           Call("symbolic_rz_matrix", <<theta>>, symbolic_rz_matrix(theta))
Do_rotation_matrix ==
    /\ pc = "idle"
    /\ \E phi \in Angles, theta \in Angles, psi \in Angles :
           Call("rotation_matrix", <<phi, theta, psi>>, rotation_matrix(phi, theta, psi))
Do_symbolic_rotation_matrix ==
    /\ pc = "idle"
    /\ \E phi \in Angles, theta \in Angles :
           Call("symbolic_rotation_matrix", <<phi, theta, Symbol>>,
                symbolic_rotation_matrix(phi, theta, Symbol))
Do_rpy_matrix ==
    /\ pc = "idle"
    /\ \E roll \in Angles, pitch \in Angles, yaw \in Angles :
           Call("rpy_matrix", <<roll, pitch, yaw>>, rpy_matrix(roll, pitch, yaw))
Do_axis_rotation_matrix ==
    /\ pc = "idle"
    /\ \E axis \in Vector3s, theta \in Angles :
           Call("axis_rotation_matrix", <<axis, theta>>, axis_rotation_matrix(axis, theta))
Do_symbolic_axis_rotation_matrix ==
    /\ pc = "idle"
    /\ \E axis \in Vector3s :
           Call("symbolic_axis_rotation_matrix", <<axis, Symbol>>,
                symbolic_axis_rotation_matrix(axis, Symbol))
Do_get_translation_matrix ==
    /\ pc = "idle"
    /\ \E mu \in Vector3s : Call("get_translation_matrix", <<mu>>, get_translation_matrix(mu))
Do_get_symbolic_translation_matrix ==
    /\ pc = "idle"
    /\ \E mu \in Vector3s :
           Call("get_symbolic_translation_matrix", <<mu>>, get_symbolic_translation_matrix(mu))
Do_homogeneous_translation_matrix ==
    /\ pc = "idle"
    /\ \E mu \in Vector3s :
           Call("homogeneous_translation_matrix", mu,
                homogeneous_translation_matrix(mu[1], mu[2], mu[3]))
Do_to_transformation_matrix ==
    /\ pc = "idle"
    /\ \E t \in Vector3s, R \in Orientations :
           Call("to_transformation_matrix", <<t, R>>, to_transformation_matrix(t, R))
Do_cartesian_to_homogeneous ==
    /\ pc = "idle"
    /\ \E M \in SquareMatrices, matrix_type \in MatrixTypes :
           Call("cartesian_to_homogeneous", <<M, matrix_type>>,
                cartesian_to_homogeneous(M, matrix_type))
Do_cartesian_to_homogeneous_vectors ==
    /\ pc = "idle"
    /\ \E v \in Vectors, matrix_type \in MatrixTypes :
           Call("cartesian_to_homogeneous_vectors", <<v, matrix_type>>,
                cartesian_to_homogeneous_vectors(v, matrix_type))
Do_from_transformation_matrix ==
    /\ pc = "returned"
    /\ op \in {"to_transformation_matrix", "get_translation_matrix",
               "get_symbolic_translation_matrix", "homogeneous_translation_matrix"}
    /\ Convert("from_transformation_matrix", from_transformation_matrix(ret.val))
Do_homogeneous_to_cartesian ==
    /\ pc = "returned"
    /\ op = "cartesian_to_homogeneous"
    /\ Convert("homogeneous_to_cartesian", homogeneous_to_cartesian(ret.val))
Do_homogeneous_to_cartesian_vectors ==
    /\ pc = "returned"
    /\ op = "cartesian_to_homogeneous_vectors"
    /\ Convert("homogeneous_to_cartesian_vectors", homogeneous_to_cartesian_vectors(ret.val))

Next ==
    \/ Do_rx_matrix
    \/ Do_ry_matrix
    \/ Do_rz_matrix
    \/ Do_symbolic_rz_matrix
    \/ Do_rotation_matrix
    \/ Do_symbolic_rotation_matrix
    \/ Do_rpy_matrix
    \/ Do_axis_rotation_matrix
    \/ Do_symbolic_axis_rotation_matrix
    \/ Do_get_translation_matrix
    \/ Do_get_symbolic_translation_matrix
    \/ Do_homogeneous_translation_matrix
    \/ Do_to_transformation_matrix
    \/ Do_cartesian_to_homogeneous
    \/ Do_cartesian_to_homogeneous_vectors
    \/ Do_from_transformation_matrix
    \/ Do_homogeneous_to_cartesian
    \/ Do_homogeneous_to_cartesian_vectors

Spec == Init /\ [][Next]_vars

\* ------------------------------------------- helpers of the properties
Identity(n) == [i \in 1..n |-> [j \in 1..n |-> IF i = j THEN Num(R1) ELSE Num(R0)]]
Transpose(m) == [j \in 1..Len(m[1]) |-> [i \in 1..Len(m) |-> m[i][j]]]
\* The determinant of a 3 x 3 matrix of numbers, by the rule of Sarrus.
Det3(m) ==
    Sub(Add(Add(Mul(Mul(m[1][1], m[2][2]), m[3][3]),
                Mul(Mul(m[1][2], m[2][3]), m[3][1])),
            Mul(Mul(m[1][3], m[2][1]), m[3][2])),
        Add(Add(Mul(Mul(m[1][3], m[2][2]), m[3][1]),
                Mul(Mul(m[1][2], m[2][1]), m[3][3])),
            Mul(Mul(m[1][1], m[2][3]), m[3][2])))
\* Substituting the angle a for the free symbol in a scalar / a matrix.
SubsScalar(e, a) == Num(RAdd(e.k, RAdd(RMul(e.c, a.cos), RMul(e.s, a.sin))))
Subs(m, a) == [i \in 1..Len(m) |-> [j \in 1..Len(m[i]) |-> SubsScalar(m[i][j], a)]]
ZeroAngle == [sym |-> FALSE, cos |-> R1, sin |-> R0]
\* An angle with cos = 3/5, sin = 4/5.
Angle345 == [sym |-> FALSE, cos |-> <<3, 5>>, sin |-> <<4, 5>>]
AxisX == <<PyInt(1), PyInt(0), PyInt(0)>>
AxisY == <<PyInt(0), PyInt(1), PyInt(0)>>
AxisZ == <<PyInt(0), PyInt(0), PyInt(1)>>
\* The 4 x 4 matrix with identity orientation block, last column (mu, 1) and
\* bottom row [0, 0, 0, 1].
TranslationOf(mu) ==
    [i \in 1..4 |-> [j \in 1..4 |->
        IF j = 4 /\ i < 4 THEN mu[i] ELSE IF i = j THEN Num(R1) ELSE Num(R0)]]

\* ------------------------------------------------------------ properties

\* C1: from_transformation_matrix applied to to_transformation_matrix(t, R)
\* returns the pair (t, R): the 3-element translation t and the 3 x 3 block R.
C1_ComposeDecomposeRoundTrip ==
    (op = "from_transformation_matrix" /\ from.op = "to_transformation_matrix")
        => ret = Ok(<<from.args[1], from.args[2]>>)

\* C2: for any square M the call cartesian_to_homogeneous(M, numeric tag)
\* succeeds, and homogeneous_to_cartesian of its result is M.  The numeric tag
\* is taken as the code spells it, "numpy".
C2_MatrixRoundTrip ==
    /\ (op = "cartesian_to_homogeneous" /\ args[2] = "numpy") => ret.err = "none"
    /\ (op = "homogeneous_to_cartesian" /\ from.op = "cartesian_to_homogeneous"
            /\ from.args[2] = "numpy")
        => ret = Ok(from.args[1])

\* C3: for either recognised tag and any N x N matrix M, cartesian_to_homogeneous
\* returns without error an (N+1) x (N+1) matrix whose top-left N x N block is
\* M and whose last row and last column are those of the identity of size N+1.
\* The tags are taken as the code spells them, "numpy" and "sympy".
C3_HomogeneousEmbedding ==
    (op = "cartesian_to_homogeneous" /\ args[2] \in {"numpy", "sympy"})
        => /\ ret.err = "none"
           /\ LET M == args[1]
                  N == Len(M)
                  H == ret.val
              IN  /\ Len(H) = N + 1
                  /\ \A i \in 1..(N + 1) : Len(H[i]) = N + 1
                  /\ \A i \in 1..N : \A j \in 1..N : H[i][j] = M[i][j]
                  /\ \A i \in 1..N : H[i][N + 1] = Num(R0) /\ H[N + 1][i] = Num(R0)
                  /\ H[N + 1][N + 1] = Num(R1)

\* C4 as written, with the tags spelled "numeric" and "symbolic":
\* cartesian_to_homogeneous raises the unsupported-mode error (ValueError)
\* exactly when its tag is neither "numeric" nor "symbolic", and
\* cartesian_to_homogeneous_vectors raises it for every tag other than "numeric".
C4_UnsupportedModeAsWritten ==
    /\ op = "cartesian_to_homogeneous"
        => (ret.err = "ValueError" <=> args[2] \notin {"numeric", "symbolic"})
    /\ op = "cartesian_to_homogeneous_vectors"
        => (ret.err = "ValueError" <=> args[2] # "numeric")

\* C4, amended: the tags the code recognises are spelled "numpy" (numeric) and
\* "sympy" (symbolic).  cartesian_to_homogeneous raises the unsupported-mode
\* error (ValueError) exactly when its tag is neither "numpy" nor "sympy";
\* cartesian_to_homogeneous_vectors raises it for every tag other than "numpy",
\* "sympy" included, and raises nothing else; when the error is raised nothing
\* is returned.
C4_UnsupportedMode ==
    /\ op = "cartesian_to_homogeneous"
        => /\ ret.err = "ValueError" <=> args[2] \notin {"numpy", "sympy"}
           /\ ret.err = "ValueError" => ret.val = <<>>
    /\ op = "cartesian_to_homogeneous_vectors"
        => /\ ret.err = "ValueError" <=> args[2] # "numpy"
           /\ ret.err = "ValueError" => ret.val = <<>>
           /\ ret.err \in {"none", "ValueError"}

\* C4 witness: the vector conversion was called with the symbolic tag and
\* raised the unsupported-mode error.
C4_Witness ==
    /\ op = "cartesian_to_homogeneous_vectors"
    /\ args[2] = "sympy"
    /\ ret.err = "ValueError"

\* C5: in numeric mode (tag "numpy") cartesian_to_homogeneous_vectors(v) returns
\* v followed by a 1, and homogeneous_to_cartesian_vectors of that result is v.
C5_VectorEmbedding ==
    /\ (op = "cartesian_to_homogeneous_vectors" /\ args[2] = "numpy")
        => /\ ret.err = "none"
           /\ Len(ret.val) = Len(args[1]) + 1
           /\ \A i \in 1..Len(args[1]) : ret.val[i] = args[1][i]
           /\ ret.val[Len(args[1]) + 1] = Num(R1)
    /\ (op = "homogeneous_to_cartesian_vectors"
            /\ from.op = "cartesian_to_homogeneous_vectors")
        => ret = Ok(from.args[1])

\* C6: get_translation_matrix([x,y,z]), get_symbolic_translation_matrix([x,y,z])
\* and homogeneous_translation_matrix(x, y, z) each return the matrix with
\* identity orientation block, last column (x, y, z, 1) and bottom row [0,0,0,1].
C6_TranslationBuildersAgree ==
    /\ op \in {"get_translation_matrix", "get_symbolic_translation_matrix"}
        => ret = Ok(TranslationOf(args[1]))
    /\ op = "homogeneous_translation_matrix" => ret = Ok(TranslationOf(args))

\* C7: axis_rotation_matrix([0,0,1], theta) equals rz_matrix(theta), that is
\* rows [c,-s,0], [s,c,0], [0,0,1]; axis [1,0,0] gives rx_matrix(theta) and
\* axis [0,1,0] gives ry_matrix(theta).
C7_AxisRotationIsElementary ==
    op = "axis_rotation_matrix"
        => LET theta == args[2]
               c == Num(theta.cos)
               s == Num(theta.sin)
           IN  /\ args[1] = AxisZ
                    => /\ ret = rz_matrix(theta)
                       /\ ret.val = << <<c, Neg(s), Num(R0)>>,
                                       <<s, c, Num(R0)>>,
                                       <<Num(R0), Num(R0), Num(R1)>> >>
               /\ args[1] = AxisX => ret = rx_matrix(theta)
               /\ args[1] = AxisY => ret = ry_matrix(theta)

\* C7 witness: the rotation about [0,0,1] by the angle with cos 3/5, sin 4/5
\* was computed.
C7_Witness ==
    /\ op = "axis_rotation_matrix"
    /\ args = <<AxisZ, Angle345>>
    /\ ret.err = "none"
    /\ ret.val[1][2] = Num(<<-4, 5>>)

\* C8: for each pair rz_matrix / symbolic_rz_matrix, rotation_matrix /
\* symbolic_rotation_matrix, axis_rotation_matrix / symbolic_axis_rotation_matrix,
\* substituting a concrete angle for the free symbol in the symbolic result
\* gives the matrix the numeric function returns for that angle and the same
\* remaining arguments.
C8_SymbolicAgreesWithNumeric ==
    /\ (op = "symbolic_rz_matrix" /\ args[1] = Symbol)
        => /\ ret.err = "none"
           /\ \A a \in Angles : Ok(Subs(ret.val, a)) = rz_matrix(a)
    /\ op = "symbolic_rotation_matrix"
        => /\ ret.err = "none"
           /\ \A a \in Angles :
                Ok(Subs(ret.val, a)) = rotation_matrix(args[1], args[2], a)
    /\ op = "symbolic_axis_rotation_matrix"
        => /\ ret.err = "none"
           /\ \A a \in Angles :
                Ok(Subs(ret.val, a)) = axis_rotation_matrix(args[1], a)

\* C9: each of rx_matrix, ry_matrix, rz_matrix is orthonormal (R^T R = I) with
\* determinant +1 for every angle, and is exactly the identity at angle 0.
C9_ElementaryRotationsOrthonormal ==
    op \in {"rx_matrix", "ry_matrix", "rz_matrix"}
        => /\ ret.err = "none"
           /\ MatMul(Transpose(ret.val), ret.val) = Identity(3)
           /\ Det3(ret.val) = Num(R1)
           /\ args[1] = ZeroAngle => ret.val = Identity(3)

\* C9 witness: rz_matrix was computed at an angle with non-zero sine and cosine.
C9_Witness ==
    /\ op = "rz_matrix"
    /\ args[1] = Angle345
    /\ ret.err = "none"

\* C10: rotation_matrix(phi, theta, psi) = Rz(phi) Rx(theta) Rz(psi) and
\* rpy_matrix(roll, pitch, yaw) = Rz(yaw) Ry(pitch) Rx(roll), in that order;
\* both are the identity when the three angles are 0.
C10_CompositionOrder ==
    /\ op = "rotation_matrix"
        => /\ ret.err = "none"
           /\ ret.val = MatMul(MatMul(rz_matrix(args[1]).val, rx_matrix(args[2]).val),
                               rz_matrix(args[3]).val)
           /\ args = <<ZeroAngle, ZeroAngle, ZeroAngle>> => ret.val = Identity(3)
    /\ op = "rpy_matrix"
        => /\ ret.err = "none"
           /\ ret.val = MatMul(MatMul(rz_matrix(args[3]).val, ry_matrix(args[2]).val),
                               rx_matrix(args[1]).val)
           /\ args = <<ZeroAngle, ZeroAngle, ZeroAngle>> => ret.val = Identity(3)

\* C10 witness: rotation_matrix was computed for angles at which the reversed
\* order of the factors gives another matrix.
C10_Witness ==
    /\ op = "rotation_matrix"
    /\ ret.err = "none"
    /\ ret.val # MatMul(MatMul(rz_matrix(args[3]).val, rx_matrix(args[2]).val),
                        rz_matrix(args[1]).val)

====
